---- MODULE Spec2Model ----
(***************************************************************************)
(* babel-plugin-lp-react-intl (src/src/index.ts): the visitor that collects *)
(* the Chinese text of a file into a message catalog and rewrites every     *)
(* site into intl.formatMessage(intlMessages[key]).                         *)
(*                                                                          *)
(* A text is a sequence of characters, each character a string.  TLA+       *)
(* strings are ASCII, so "ni" and "hao" stand for two code points inside    *)
(* \u4e00-\u9fa5, "!" for the full-width exclamation mark (U+FF01,          *)
(* outside that range),                                                     *)
(* "a" for an ASCII letter and " " for white space.  A placeholder token    *)
(* "{placeholder1}" is one character of a text.  Texts hold no quote or     *)
(* line break: the source-text round trip of @babel/template is taken to    *)
(* return the tree of the text it is given.                                 *)
(***************************************************************************)
EXTENDS Integers, Sequences, FiniteSets, TLC

----------------------------------------------------------------------------
(* Bounds of the model. *)

\* Top-level statements of one file: 0..MaxStmts.
MaxStmts == 2

\* A further file is transformed only while the accumulator holds fewer keys.
MaxKeys == 2

----------------------------------------------------------------------------
(* Program constants, index.ts lines 11-15. *)

INTL_NAME == "intl"
DEFINE_MESSAGES == "defineMessages"
INTL_MESSAGES == "intlMessages"
INTL_FILE_PATH == "@/locales"
INTL_DISABLE == "i18n-disable"

\* The module the catalog builder is imported from (line 121).
REACT_INTL == "react-intl"

----------------------------------------------------------------------------
(* Texts. *)

\* The characters the regular expression of isChinese matches.
ChineseChars == {"ni", "hao"}

\* The characters String.prototype.trim removes.
Whitespace == {" "}

RECURSIVE trimStart(_)
trimStart(s) ==
  IF s # <<>> /\ Head(s) \in Whitespace THEN trimStart(Tail(s)) ELSE s

RECURSIVE trimEnd(_)
trimEnd(s) ==
  IF s # <<>> /\ s[Len(s)] \in Whitespace
  THEN trimEnd(SubSeq(s, 1, Len(s) - 1))
  ELSE s

\* text.trim()
trim(s) == trimEnd(trimStart(s))

\* function isChinese(str): str && /[\u4e00-\u9fa5]/.test(str)
isChinese(str) == str # <<>> /\ \E i \in 1..Len(str) : str[i] \in ChineseChars

\* placeholderName numbered by the index itself.
placeholderNameFromZero(index) == "placeholder" \o ToString(index)

\* `placeholder${index + 1}` for the 0-based index of the code.
placeholderName(index) == "placeholder" \o ToString(index + 1)

\* `{placeholder${index + 1}}`, one character of a key.
placeholderToken(index) == "{placeholder" \o ToString(index + 1) \o "}"

\* comment.value.includes(INTL_DISABLE): a comment is its text, and the
\* comments of the model either are the marker or do not hold it.
includesDisable(comment) == comment = INTL_DISABLE

----------------------------------------------------------------------------
(* The syntax tree of a file, as the visitor sees it.                      *)
(* A fragment node (JSXText, StringLiteral, TemplateLiteral) carries its   *)
(* value or quasis/expressions, its leading comments, its ancestors from   *)
(* the parent upwards, the enclosing template fragment (encl, 0: none),    *)
(* the statement it lies in (stmt), the ad hoc field node.skip and what    *)
(* path.replaceWith put in its place (out).                                *)

\* An ancestor without a name, and a VariableDeclarator with its id.name.
Anc(type) == [type |-> type, name |-> ""]
Declarator(name) == [type |-> "VariableDeclarator", name |-> name]

\* An interpolated expression: an identifier, or a string literal.
Ident(name) == [type |-> "Identifier", name |-> name, value |-> <<>>]
StrExpr(value) == [type |-> "StringLiteral", name |-> "", value |-> value]

\* The node has not been replaced.
NotReplaced == [kind |-> "none"]

TextNode(type, value, comments, ancestors, encl) ==
  [type |-> type, value |-> value, quasis |-> <<>>, expressions |-> <<>>,
   leadingComments |-> comments, ancestors |-> ancestors, encl |-> encl,
   stmt |-> 0, skip |-> FALSE, out |-> NotReplaced]

TemplateNode(quasis, expressions, comments, ancestors) ==
  [type |-> "TemplateLiteral", value |-> <<>>, quasis |-> quasis,
   expressions |-> expressions, leadingComments |-> comments,
   ancestors |-> ancestors, encl |-> 0,
   stmt |-> 0, skip |-> FALSE, out |-> NotReplaced]

\* A top-level statement of the source: its type, the name it binds in the
\* top scope ("": none) and its position in the source (tag).
Statement(type, name, tag) ==
  [type |-> type, name |-> name, tag |-> tag, importKind |-> "",
   source |-> "", callee |-> "", entries |-> <<>>]

InCall == <<Anc("CallExpression"), Anc("ExpressionStatement")>>

\* The statements a file is made of, each with its fragments in document
\* order (encl counts inside the statement).
StmtShapes == <<
  \* 1: import x from "a"
  [type |-> "ImportDeclaration", name |-> "x", nodes |-> <<
     TextNode("StringLiteral", <<"a">>, <<>>, <<Anc("ImportDeclaration")>>, 0)>>],
  \* 2: import intl from "ni"
  [type |-> "ImportDeclaration", name |-> INTL_NAME, nodes |-> <<
     TextNode("StringLiteral", <<"ni">>, <<>>, <<Anc("ImportDeclaration")>>, 0)>>],
  \* 3: const defineMessages = " ni "
  [type |-> "VariableDeclaration", name |-> DEFINE_MESSAGES, nodes |-> <<
     TextNode("StringLiteral", <<" ", "ni", " ">>, <<>>,
              <<Declarator(DEFINE_MESSAGES), Anc("VariableDeclaration")>>, 0)>>],
  \* 4: f("ni")
  [type |-> "ExpressionStatement", name |-> "", nodes |-> <<
     TextNode("StringLiteral", <<"ni">>, <<>>, InCall, 0)>>],
  \* 5: f("a")
  [type |-> "ExpressionStatement", name |-> "", nodes |-> <<
     TextNode("StringLiteral", <<"a">>, <<>>, InCall, 0)>>],
  \* 6: const t: "ni" = f(/* note */ /* i18n-disable */ "hao")
  [type |-> "VariableDeclaration", name |-> "t", nodes |-> <<
     TextNode("StringLiteral", <<"ni">>, <<>>,
              <<Anc("TSLiteralType"), Anc("TSTypeAnnotation"),
                Anc("Identifier"), Declarator("t"),
                Anc("VariableDeclaration")>>, 0),
     TextNode("StringLiteral", <<"hao">>, <<"note", INTL_DISABLE>>,
              <<Anc("CallExpression"), Declarator("t"),
                Anc("VariableDeclaration")>>, 0)>>],
  \* 7: <div title="hao"> ni </div>
  [type |-> "ExpressionStatement", name |-> "", nodes |-> <<
     TextNode("StringLiteral", <<"hao">>, <<>>,
              <<Anc("JSXAttribute"), Anc("JSXOpeningElement"),
                Anc("JSXElement"), Anc("ExpressionStatement")>>, 0),
     TextNode("JSXText", <<" ", "ni", " ">>, <<>>,
              <<Anc("JSXElement"), Anc("ExpressionStatement")>>, 0)>>],
  \* 8: f(`ni${name}!`)
  [type |-> "ExpressionStatement", name |-> "", nodes |-> <<
     TemplateNode(<< <<"ni">>, <<"!">> >>, <<Ident("name")>>, <<>>, InCall)>>],
  \* 9: f(`ni${"hao"}a${x} `)
  [type |-> "ExpressionStatement", name |-> "", nodes |-> <<
     TemplateNode(<< <<"ni">>, <<"a">>, <<" ">> >>,
                  <<StrExpr(<<"hao">>), Ident("x")>>, <<>>, InCall),
     TextNode("StringLiteral", <<"hao">>, <<>>,
              <<Anc("TemplateLiteral")>> \o InCall, 1)>>],
  \* 10: const intlMessages = { a: "ni" }
  [type |-> "VariableDeclaration", name |-> INTL_MESSAGES, nodes |-> <<
     TextNode("StringLiteral", <<"ni">>, <<>>,
              <<Anc("ObjectProperty"), Anc("ObjectExpression"),
                Declarator(INTL_MESSAGES), Anc("VariableDeclaration")>>, 0)>>],
  \* 11: f(`ni`, "ni{placeholder1}")
  [type |-> "ExpressionStatement", name |-> "", nodes |-> <<
     TemplateNode(<< <<"ni">> >>, <<>>, <<>>, InCall),
     TextNode("StringLiteral", <<"ni", "{placeholder1}">>, <<>>, InCall, 0)>>]
>>

\* A file: the shapes of its top-level statements, in order.
Files == UNION {[1..n -> 1..Len(StmtShapes)] : n \in 0..MaxStmts}

\* path.node.body of a file.
bodyOf(file) ==
  [i \in 1..Len(file) |->
     Statement(StmtShapes[file[i]].type, StmtShapes[file[i]].name, i)]

\* The fragments of a file in document order, numbered from 1.
RECURSIVE placeNodes(_, _, _)
placeNodes(file, i, acc) ==
  IF i > Len(file) THEN acc
  ELSE LET shape == StmtShapes[file[i]].nodes
           off == Len(acc)
           placed == [k \in 1..Len(shape) |->
                        [shape[k] EXCEPT !.stmt = i,
                                         !.encl = IF @ = 0 THEN 0 ELSE @ + off]]
       IN placeNodes(file, i + 1, acc \o placed)

nodesOf(file) == placeNodes(file, 1, <<>>)

\* The content of messageKeys the plugin is created with.
InitialKeys == {<<>>, << <<"ni">> >>}

----------------------------------------------------------------------------
(* The helpers of index.ts. *)

\* Array.prototype.includes
includes(arr, x) == \E i \in 1..Len(arr) : arr[i] = x

\* Array.prototype.splice(index, 0, ...items), index 0-based.
splice(arr, index, items) ==
  SubSeq(arr, 1, index) \o items \o SubSeq(arr, index + 1, Len(arr))

\* generate.default(item).code: the source text of an interpolated expression.
generate(item) ==
  IF item.type = "Identifier" THEN <<item.name>>
  ELSE <<"\"">> \o item.value \o <<"\"">>

\* An undefined expressionParams, and one that is given.
NoParams == [given |-> FALSE, list |-> <<>>]
Params(list) == [given |-> TRUE, list |-> list]

\* function createFormatMessageCall(text, expressionParams): the expression
\* parsed from `${INTL_NAME}.formatMessage(${INTL_MESSAGES}["${text.trim()}"]
\* ${expressionParams ? `, {'placeholder${index + 1}': ${key}, ...}` : ""})`.
\* An array, empty or not, is truthy.
createFormatMessageCall(text, expressionParams) ==
  [kind |-> "call", container |-> FALSE,
   object |-> INTL_NAME, property |-> "formatMessage",
   messages |-> INTL_MESSAGES, key |-> trim(text),
   hasParams |-> expressionParams.given,
   params |-> [i \in 1..Len(expressionParams.list) |->
                 [name |-> placeholderName(i - 1),
                  code |-> expressionParams.list[i]]]]

\* jsxExpressionContainer(expression)
jsxExpressionContainer(expression) == [expression EXCEPT !.container = TRUE]

\* path.findParent(p => p.isImportDeclaration() || p.isTSLiteralType())
inImportOrTSLiteralType(node) ==
  \E i \in 1..Len(node.ancestors) :
     node.ancestors[i].type \in {"ImportDeclaration", "TSLiteralType"}

\* traverseSkip without its look at the ancestors.
traverseSkipCommentsOnly(node) ==
  LET comments == node.leadingComments
      disabled == \E i \in 1..Len(comments) : includesDisable(comments[i])
      kept == SelectSeq(comments, LAMBDA c : ~includesDisable(c))
  IN [node EXCEPT !.leadingComments = kept, !.skip = @ \/ disabled]

\* function traverseSkip(path): the node afterwards.  leadingComments is
\* undefined on a node without comments, and the filter then does not run.
traverseSkip(node) ==
  LET comments == node.leadingComments
      disabled == \E i \in 1..Len(comments) : includesDisable(comments[i])
      kept == SelectSeq(comments, LAMBDA c : ~includesDisable(c))
  IN [node EXCEPT !.leadingComments = kept,
                  !.skip = @ \/ disabled \/ inImportOrTSLiteralType(node)]

\* chineseSkip that marks nothing.
chineseSkipNever(node, value) == node

\* function chineseSkip(path, value): the node afterwards.
chineseSkip(node, value) ==
  IF ~isChinese(value) THEN [node EXCEPT !.skip = TRUE] ELSE node

\* quasis.map(item => item.value.raw).reduce((prev, curr, index) => ..., ""):
\* the steps of the reduce from the 0-based index on.
RECURSIVE reduceQuasis(_, _, _)
reduceQuasis(quasis, index, prev) ==
  IF index >= Len(quasis) THEN prev
  ELSE reduceQuasis(quasis, index + 1,
         IF index # Len(quasis) - 1
         THEN prev \o quasis[index + 1] \o <<placeholderToken(index)>>
         ELSE prev)

\* `value` of the TemplateLiteral callback of the collection walk.
collectValue(quasis) == reduceQuasis(quasis, 0, <<>>)

\* `value` of the TemplateLiteral visitor of the rewrite walk.
rewriteValue(quasis) == reduceQuasis(quasis, 0, <<>>)

\* if (!fileMessagekeys.includes(trimmedValue)) fileMessagekeys.push(trimmedValue)
\* of the JSXText|StringLiteral callback.
pushTextKey(keys, trimmedValue) ==
  IF ~includes(keys, trimmedValue) THEN Append(keys, trimmedValue) ELSE keys

\* pushTemplateKey without the includes test.
pushTemplateKeyAlways(keys, trimmedValue) == Append(keys, trimmedValue)

\* The same two lines of the TemplateLiteral callback.
pushTemplateKey(keys, trimmedValue) ==
  IF ~includes(keys, trimmedValue) THEN Append(keys, trimmedValue) ELSE keys

\* scanImports that stops at the end of the statement list.
RECURSIVE scanImportsClamped(_, _)
scanImportsClamped(stmts, index) ==
  IF index >= Len(stmts) THEN [fault |-> FALSE, index |-> index]
  ELSE IF stmts[index + 1].type = "ImportDeclaration"
       THEN scanImportsClamped(stmts, index + 1)
       ELSE [fault |-> FALSE, index |-> index]

\* let index = 0; while (path.node.body[index].type === "ImportDeclaration")
\* index++: reading .type of body[index] past the end throws a TypeError.
RECURSIVE scanImports(_, _)
scanImports(stmts, index) ==
  IF index >= Len(stmts) THEN [fault |-> TRUE, index |-> index]
  ELSE IF stmts[index + 1].type = "ImportDeclaration"
       THEN scanImports(stmts, index + 1)
       ELSE [fault |-> FALSE, index |-> index]

\* path.scope.getBinding(name) of the Program path: a binding of the top scope.
getBinding(stmts, name) == \E i \in 1..Len(stmts) : stmts[i].name = name

\* path.scope.generateUid(name): "_" + name, which no statement of the model
\* binds or refers to.
generateUid(name) == "_" \o name

\* let methodName1 = DEFINE_MESSAGES; if (path.scope.getBinding(methodName1))
\* methodName1 = path.scope.generateUid(methodName1)
resolveMethodName1(stmts) ==
  IF getBinding(stmts, DEFINE_MESSAGES) THEN generateUid(DEFINE_MESSAGES)
  ELSE DEFINE_MESSAGES

\* The same for methodName2 = INTL_NAME.
resolveMethodName2(stmts) ==
  IF getBinding(stmts, INTL_NAME) THEN generateUid(INTL_NAME) ELSE INTL_NAME

----------------------------------------------------------------------------
(* The state. *)

VARIABLES
  messageKeys,      \* the accumulator the plugin was created with (line 63)
  priorKeys,        \* history: the initial accumulator followed by the
                    \* registry of every file transformed before this one
  srcBody,          \* history: path.node.body as the file was parsed
  body,             \* path.node.body
  nodes,            \* the fragment nodes of the file, by number
  pc,               \* "idle", "Program", "collect", "rewrite" or "fault"
  pos,              \* the place of the running walk in document order
  index,            \* `index` of the Program visitor
  methodName1,      \* `methodName1` of the Program visitor
  methodName2,      \* `methodName2` of the Program visitor
  fileMessagekeys   \* `fileMessagekeys` of the Program visitor

vars == <<messageKeys, priorKeys, srcBody, body, nodes, pc, pos, index,
          methodName1, methodName2, fileMessagekeys>>

\* state.skip of the rewrite visitors: the plugin pass never sets it.
stateSkip == FALSE

\* The numbers of the nodes in document order: statement by statement, and
\* inside a statement in the order of their numbers.
RECURSIVE docOrderFrom(_, _, _)
docOrderFrom(stmts, ns, i) ==
  IF i > Len(stmts) THEN <<>>
  ELSE SelectSeq([k \in 1..Len(ns) |-> k],
                 LAMBDA k : ns[k].stmt = stmts[i].tag)
       \o docOrderFrom(stmts, ns, i + 1)

docOrder(stmts, ns) == docOrderFrom(stmts, ns, 1)

\* The node is still in the tree: no template around it was replaced.
RECURSIVE attached(_, _)
attached(ns, id) ==
  \/ ns[id].encl = 0
  \/ /\ ns[ns[id].encl].out = NotReplaced
     /\ attached(ns, ns[id].encl)

\* The next place from p on that the traversal enters: path.skip() after a
\* replacement keeps it out of what the replaced node held.
RECURSIVE nextVisit(_, _, _)
nextVisit(ns, order, p) ==
  IF p > Len(order) THEN p
  ELSE IF attached(ns, order[p]) THEN p
       ELSE nextVisit(ns, order, p + 1)

\* The traversal of the file has ended.
Finished == pc = "rewrite" /\ pos > Len(docOrder(body, nodes))

\* No file is being transformed: the tree and the locals of the visitor
\* do not exist.
NoFile(srcBodyV, bodyV, nodesV, posV, indexV, name1V, name2V, keysV) ==
  /\ srcBodyV = <<>>
  /\ bodyV = <<>>
  /\ nodesV = <<>>
  /\ posV = 1
  /\ indexV = 0
  /\ name1V = DEFINE_MESSAGES
  /\ name2V = INTL_NAME
  /\ keysV = <<>>

\* babelPluginLpReactIntl({ messageKeys = [] } = {}), line 63: the plugin as
\* it is created, with the accumulator of the caller.
Init ==
  /\ messageKeys \in InitialKeys
  /\ priorKeys = messageKeys
  /\ pc = "idle"
  /\ NoFile(srcBody, body, nodes, pos, index, methodName1, methodName2,
            fileMessagekeys)

----------------------------------------------------------------------------
(* Program(path, state), lines 66-81: the scan of the leading imports, the *)
(* two names and the empty registry.                                       *)
ProgramEnter ==
  /\ pc = "Program"
  /\ LET scan == scanImports(body, 0)
     IN IF scan.fault
        THEN /\ pc' = "fault"
             /\ UNCHANGED <<index, methodName1, methodName2, pos,
                            fileMessagekeys>>
        ELSE /\ pc' = "collect"
             /\ index' = scan.index
             /\ methodName1' = resolveMethodName1(body)
             /\ methodName2' = resolveMethodName2(body)
             /\ fileMessagekeys' = <<>>
             /\ pos' = 1
  /\ UNCHANGED <<messageKeys, priorKeys, srcBody, body, nodes>>

(* "JSXText|StringLiteral"(path) of path.traverse, lines 83-93. *)
CollectText ==
  /\ pc = "collect"
  /\ pos <= Len(nodes)
  /\ nodes[pos].type \in {"JSXText", "StringLiteral"}
  /\ LET marked == traverseSkip(nodes[pos])
         node == chineseSkip(marked, marked.value)
     IN /\ nodes' = [nodes EXCEPT ![pos] = node]
        /\ fileMessagekeys' =
             IF node.skip THEN fileMessagekeys
             ELSE pushTextKey(fileMessagekeys, trim(node.value))
  /\ pos' = pos + 1
  /\ UNCHANGED <<messageKeys, priorKeys, srcBody, body, pc, index,
                 methodName1, methodName2>>

(* TemplateLiteral(path) of path.traverse, lines 94-114. *)
CollectTemplate ==
  /\ pc = "collect"
  /\ pos <= Len(nodes)
  /\ nodes[pos].type = "TemplateLiteral"
  /\ LET marked == traverseSkip(nodes[pos])
         value == collectValue(marked.quasis)
         node == IF marked.skip THEN marked ELSE chineseSkip(marked, value)
     IN /\ nodes' = [nodes EXCEPT ![pos] = node]
        /\ fileMessagekeys' =
             IF node.skip THEN fileMessagekeys
             ELSE pushTemplateKey(fileMessagekeys, trim(value))
  /\ pos' = pos + 1
  /\ UNCHANGED <<messageKeys, priorKeys, srcBody, body, pc, index,
                 methodName1, methodName2>>

\* template.statements(`import { ${methodName1} } from 'react-intl';
\* import ${methodName2} from '${INTL_FILE_PATH}';`)(): the two statements.
\* The statements the plugin adds carry the tags -1, -2, -3.
importStatements(name1, name2) ==
  << [type |-> "ImportDeclaration", name |-> name1, tag |-> -1,
      importKind |-> "named", source |-> REACT_INTL,
      callee |-> "", entries |-> <<>>],
     [type |-> "ImportDeclaration", name |-> name2, tag |-> -2,
      importKind |-> "default", source |-> INTL_FILE_PATH,
      callee |-> "", entries |-> <<>>] >>

\* template.statement(`const ${INTL_MESSAGES} = ${methodName1}({
\* ${fileMessagekeys.map(key => `'${key}': { id: "${key}" }`).join(",")} })`)()
messagesStatement(name1, keys) ==
  [type |-> "VariableDeclaration", name |-> INTL_MESSAGES, tag |-> -3,
   importKind |-> "", source |-> "", callee |-> name1,
   entries |-> [i \in 1..Len(keys) |-> [key |-> keys[i], id |-> keys[i]]]]

\* The string literals of the three statements: the two import sources (a
\* module path is one ASCII character of a text), then for every entry its
\* quoted property name and the value of its id.
injectedNodes(keys) ==
  LET inCatalog == <<Anc("ObjectExpression"), Anc("CallExpression"),
                     Declarator(INTL_MESSAGES), Anc("VariableDeclaration")>>
      literal(value, ancestors, tag) ==
        [TextNode("StringLiteral", value, <<>>, ancestors, 0)
           EXCEPT !.stmt = tag]
  IN << literal(<<REACT_INTL>>, <<Anc("ImportDeclaration")>>, -1),
        literal(<<INTL_FILE_PATH>>, <<Anc("ImportDeclaration")>>, -2) >>
     \o [k \in 1..(2 * Len(keys)) |->
          IF k % 2 = 1
          THEN literal(keys[(k + 1) \div 2],
                       <<Anc("ObjectProperty")>> \o inCatalog, -3)
          ELSE literal(keys[k \div 2],
                       <<Anc("ObjectProperty"), Anc("ObjectExpression"),
                         Anc("ObjectProperty")>> \o inCatalog, -3)]

\* injectStatements with the declaration spliced in at index + 1.
injectStatementsOffByOne(stmts, at, name1, name2, keys) ==
  splice(splice(stmts, at, importStatements(name1, name2)),
         at + 1, <<messagesStatement(name1, keys)>>)

\* path.node.body.splice(index, 0, ...ast);
\* path.node.body.splice(index + 2, 0, messagesAst)
injectStatements(stmts, at, name1, name2, keys) ==
  splice(splice(stmts, at, importStatements(name1, name2)),
         at + 2, <<messagesStatement(name1, keys)>>)

\* pushAll that leaves out the keys the accumulator holds already.
pushAllUnique(accumulator, keys) ==
  accumulator \o SelectSeq(keys, LAMBDA k : ~includes(accumulator, k))

\* messageKeys.push(...fileMessagekeys)
pushAll(accumulator, keys) == accumulator \o keys

(* Program(path, state), lines 118-133, once path.traverse has returned;   *)
(* the traversal then goes on into the statements of the file.             *)
ProgramInject ==
  /\ pc = "collect"
  /\ pos > Len(nodes)
  /\ IF Len(fileMessagekeys) > 0
     THEN /\ body' = injectStatements(body, index, methodName1, methodName2,
                                      fileMessagekeys)
          /\ nodes' = nodes \o injectedNodes(fileMessagekeys)
          /\ messageKeys' = pushAll(messageKeys, fileMessagekeys)
     ELSE UNCHANGED <<body, nodes, messageKeys>>
  /\ pc' = "rewrite"
  /\ pos' = nextVisit(nodes', docOrder(body', nodes'), 1)
  /\ UNCHANGED <<priorKeys, srcBody, index, methodName1, methodName2,
                 fileMessagekeys>>

\* The node the rewrite walk is at.
current == docOrder(body, nodes)[pos]

\* The walk goes on after the visitor has left the nodes as ns.
walkOn(ns) ==
  /\ nodes' = ns
  /\ pos' = nextVisit(ns, docOrder(body, ns), pos + 1)
  /\ UNCHANGED <<messageKeys, priorKeys, srcBody, body, pc, index,
                 methodName1, methodName2, fileMessagekeys>>

AtVisitor(types) ==
  /\ pc = "rewrite"
  /\ pos <= Len(docOrder(body, nodes))
  /\ nodes[current].type \in types

(* JSXText(path, state), lines 136-143. *)
JSXText ==
  /\ AtVisitor({"JSXText"})
  /\ LET node == nodes[current]
     IN IF stateSkip \/ node.skip
        THEN walkOn(nodes)
        ELSE walkOn([nodes EXCEPT ![current].out =
               jsxExpressionContainer(
                 createFormatMessageCall(node.value, NoParams))])

\* path.findParent(p => p.isVariableDeclarator() && p.node.id.name === INTL_MESSAGES)
inMessagesDeclarator(node) ==
  \E i \in 1..Len(node.ancestors) :
     /\ node.ancestors[i].type = "VariableDeclarator"
     /\ node.ancestors[i].name = INTL_MESSAGES

\* The StringLiteral visitor on a node: the node afterwards.
visitStringLiteral(node) ==
  IF stateSkip \/ node.skip THEN node
  ELSE IF node.ancestors[1].type = "JSXAttribute"
  THEN [node EXCEPT !.out =
          jsxExpressionContainer(createFormatMessageCall(node.value, NoParams))]
  ELSE IF inMessagesDeclarator(node) THEN node
  ELSE LET checked == chineseSkip(node, node.value)
       IN IF checked.skip THEN checked
          ELSE [checked EXCEPT !.out =
                  createFormatMessageCall(node.value, NoParams)]

(* StringLiteral(path, state), lines 145-167. *)
StringLiteral ==
  /\ AtVisitor({"StringLiteral"})
  /\ walkOn([nodes EXCEPT ![current] = visitStringLiteral(nodes[current])])

\* The TemplateLiteral visitor on a node: the node afterwards.
visitTemplateLiteral(node) ==
  IF stateSkip \/ node.skip THEN node
  ELSE LET expressionParams ==
             [i \in 1..Len(node.expressions) |-> generate(node.expressions[i])]
           value == rewriteValue(node.quasis)
       IN [node EXCEPT !.out =
             createFormatMessageCall(value, Params(expressionParams))]

(* TemplateLiteral(path, state), lines 169-186. *)
TemplateLiteral ==
  /\ AtVisitor({"TemplateLiteral"})
  /\ walkOn([nodes EXCEPT ![current] = visitTemplateLiteral(nodes[current])])

(* The visitor of the plugin is run on a file: the traversal is about to *)
(* enter its Program.  Every file shares the accumulator of the plugin.  *)
NextFile ==
  /\ pc = "idle"
  /\ Len(messageKeys) < MaxKeys
  /\ \E file \in Files :
       /\ srcBody' = bodyOf(file)
       /\ body' = bodyOf(file)
       /\ nodes' = nodesOf(file)
  /\ pc' = "Program"
  /\ UNCHANGED <<messageKeys, priorKeys, pos, index, methodName1,
                 methodName2, fileMessagekeys>>

(* The transform of the file returns, or has thrown: its tree and the     *)
(* locals of the visitor are gone, the accumulator stays.                 *)
FileEnd ==
  /\ Finished \/ pc = "fault"
  /\ priorKeys' = priorKeys \o fileMessagekeys
  /\ pc' = "idle"
  /\ NoFile(srcBody', body', nodes', pos', index', methodName1',
            methodName2', fileMessagekeys')
  /\ UNCHANGED messageKeys

Next ==
  \/ ProgramEnter
  \/ CollectText
  \/ CollectTemplate
  \/ ProgramInject
  \/ JSXText
  \/ StringLiteral
  \/ TemplateLiteral
  \/ NextFile
  \/ FileEnd

Spec == Init /\ [][Next]_vars

----------------------------------------------------------------------------
(* What the properties below speak of. *)

\* The nodes that were in the parsed file, and those the plugin added.
SourceNodes == {n \in 1..Len(nodes) : nodes[n].stmt > 0}
InjectedNodes == {n \in 1..Len(nodes) : nodes[n].stmt < 0}

\* path.replaceWith has put a call in the place of the node.
Replaced(n) == nodes[n].out # NotReplaced

\* The text a fragment is judged by: the value of a literal or JSX text,
\* the built key text of a template.
associatedText(node) ==
  IF node.type = "TemplateLiteral" THEN collectValue(node.quasis)
  ELSE node.value

\* The node is inside an import declaration or a type-only literal.
InExcludedContext(node) ==
  \E i \in 1..Len(node.ancestors) :
     \/ node.ancestors[i].type = "ImportDeclaration"
     \/ node.ancestors[i].type = "TSLiteralType"

\* A leading comment of the node holds the disable marker.
HasDisableComment(node) ==
  \E i \in 1..Len(node.leadingComments) :
     node.leadingComments[i] = "i18n-disable"

\* The source nodes the collection walk has been at.
Walked ==
  IF pc = "collect" THEN {n \in SourceNodes : n < pos}
  ELSE IF pc = "rewrite" THEN SourceNodes
  ELSE {}

\* The source nodes that gave the registry their key.
Collected == {n \in Walked : ~nodes[n].skip}

\* A sequence without its repetitions, in the order of first occurrence.
RECURSIVE firstOccurrences(_)
firstOccurrences(s) ==
  IF s = <<>> THEN <<>>
  ELSE LET front == firstOccurrences(SubSeq(s, 1, Len(s) - 1))
           last == s[Len(s)]
       IN IF \E i \in 1..Len(front) : front[i] = last THEN front
          ELSE Append(front, last)

\* The trimmed keys of the collected nodes, in document order.
collectedKeys ==
  LET ids == SelectSeq([n \in 1..Len(nodes) |-> n], LAMBDA n : n \in Collected)
  IN [i \in 1..Len(ids) |-> trim(associatedText(nodes[ids[i]]))]

\* The number of import declarations the statement list starts with.
RECURSIVE leadingImports(_)
leadingImports(stmts) ==
  IF stmts # <<>> /\ Head(stmts).type = "ImportDeclaration"
  THEN 1 + leadingImports(Tail(stmts))
  ELSE 0

\* The three injected statements, where the plugin has put them.
InjectedAt(i) == body[index + i]

----------------------------------------------------------------------------
(* C1 *)

\* C1: when a key was collected, the names of the two injected imports are
\* not bound by the source, the catalog declaration calls the name the
\* first import binds, and every generated call invokes formatMessage on
\* the name the injected default import binds.
C1_CallsUseTheInjectedNames ==
  (pc = "rewrite" /\ fileMessagekeys # <<>>) =>
     /\ ~getBinding(srcBody, InjectedAt(1).name)
     /\ ~getBinding(srcBody, InjectedAt(2).name)
     /\ InjectedAt(3).callee = InjectedAt(1).name
     /\ \A n \in 1..Len(nodes) :
          Replaced(n) => nodes[n].out.object = InjectedAt(2).name

----------------------------------------------------------------------------
(* C2 *)

\* q[0] + "{placeholder1}" + q[1] + ... + "{placeholderN}" + q[N] from the
\* i-th quasi (1-based) on.
RECURSIVE interleaved(_, _)
interleaved(quasis, i) ==
  IF i > Len(quasis) THEN <<>>
  ELSE IF i = Len(quasis) THEN quasis[i]
  ELSE quasis[i] \o <<"{placeholder" \o ToString(i) \o "}">>
       \o interleaved(quasis, i + 1)

\* C2: the key of a rewritten template is the trimmed interleaving of all
\* its quasis, the final one included, with the placeholders, and that key
\* is the one the collection walk registered.
C2_KeyHoldsEveryQuasi ==
  \A n \in 1..Len(nodes) :
     (nodes[n].type = "TemplateLiteral" /\ Replaced(n)) =>
        /\ nodes[n].out.key = trim(interleaved(nodes[n].quasis, 1))
        /\ includes(fileMessagekeys, trim(interleaved(nodes[n].quasis, 1)))

----------------------------------------------------------------------------
(* C3 *)

\* The placeholder tokens of a key, in the order they occur.
tokensOf(key) ==
  SelectSeq(key, LAMBDA c :
     \E i \in 0..(Len(key) + 1) : c = "{placeholder" \o ToString(i) \o "}")

\* C3: a collected and rewritten template with N interpolations has a key
\* whose placeholder tokens are {placeholder1} .. {placeholderN} in this
\* order, and a second argument of N entries, the i-th mapping
\* placeholder<i> to the source text of the i-th interpolation.
C3_PlaceholdersMatchInterpolations ==
  \A n \in 1..Len(nodes) :
     (nodes[n].type = "TemplateLiteral" /\ Replaced(n)) =>
        LET N == Len(nodes[n].expressions)
            call == nodes[n].out
        IN /\ includes(fileMessagekeys, call.key)
           /\ tokensOf(call.key) =
                [i \in 1..N |-> "{placeholder" \o ToString(i) \o "}"]
           /\ call.hasParams
           /\ Len(call.params) = N
           /\ \A i \in 1..N :
                /\ call.params[i].name = "placeholder" \o ToString(i)
                /\ call.params[i].code = generate(nodes[n].expressions[i])

\* A template with two interpolations has been collected and rewritten.
C3_Witness ==
  \E n \in 1..Len(nodes) :
     /\ nodes[n].type = "TemplateLiteral"
     /\ Replaced(n)
     /\ Len(nodes[n].expressions) = 2

----------------------------------------------------------------------------
(* C4 *)

\* C4: at every point of the collection walk and after it the registry
\* holds no key twice and is the keys of the collected fragments in the
\* order of their first occurrence; the injected catalog declaration has
\* one entry for each key of the registry, in that order.
C4_RegistryHasNoDuplicate ==
  (pc \in {"collect", "rewrite"}) =>
     /\ \A i, j \in 1..Len(fileMessagekeys) :
          i # j => fileMessagekeys[i] # fileMessagekeys[j]
     /\ fileMessagekeys = firstOccurrences(collectedKeys)
     /\ (pc = "rewrite" /\ fileMessagekeys # <<>>) =>
          /\ Len(InjectedAt(3).entries) = Len(fileMessagekeys)
          /\ \A i \in 1..Len(fileMessagekeys) :
               InjectedAt(3).entries[i].key = fileMessagekeys[i]

\* A template and a string literal with the same trimmed key were both
\* collected, after a fragment with another key, and the catalog is in.
C4_Witness ==
  /\ pc = "rewrite"
  /\ Len(fileMessagekeys) = 1
  /\ \E m, n \in Collected :
       /\ nodes[m].type = "TemplateLiteral"
       /\ nodes[n].type = "StringLiteral"
       /\ trim(associatedText(nodes[m])) = trim(associatedText(nodes[n]))

----------------------------------------------------------------------------
(* C5 *)

\* C5: a fragment whose associated text holds no character of the target
\* script is never replaced, be it of the source or injected, the
\* collection walk leaves it marked, and no key of the registry is such a
\* text.
C5_NoTargetScriptNoKeyNoRewrite ==
  /\ \A n \in 1..Len(nodes) :
       ~isChinese(associatedText(nodes[n])) =>
          /\ ~Replaced(n)
          /\ n \in Walked => nodes[n].skip
  /\ \A i \in 1..Len(fileMessagekeys) :
       \E c \in 1..Len(fileMessagekeys[i]) :
          fileMessagekeys[i][c] \in {"ni", "hao"}

\* The traversal has ended on a file with an ASCII-only literal of the
\* source and a collected key: the injected import sources were visited.
C5_Witness ==
  /\ Finished
  /\ fileMessagekeys # <<>>
  /\ \E n \in SourceNodes :
       /\ nodes[n].value = <<"a">>
       /\ ~InExcludedContext(nodes[n])
  /\ \E n \in InjectedNodes :
       nodes[n].value = <<"@/locales">> /\ nodes[n].skip

----------------------------------------------------------------------------
(* C6 *)

\* C6: a step of the collection walk at a node whose leading comment holds
\* the disable marker, or that lies in an import declaration or a
\* type-only literal, marks the node and adds no key; a marked node stays
\* marked and is never replaced, while its file is transformed.
C6_ExclusionIsMonotonic ==
  [][\A n \in (1..Len(nodes)) \cap (1..Len(nodes')) :
       /\ (pc = "collect" /\ pos = n
             /\ (HasDisableComment(nodes[n]) \/ InExcludedContext(nodes[n])))
           => (nodes'[n].skip /\ fileMessagekeys' = fileMessagekeys)
       /\ nodes[n].skip
           => (nodes'[n].skip /\ nodes'[n].out = [kind |-> "none"])]_vars

\* The traversal has ended on a file with a collected key and two marked
\* nodes of Chinese text: one in an import, one under a disable comment.
C6_Witness ==
  /\ Finished
  /\ fileMessagekeys # <<>>
  /\ \E m, n \in SourceNodes :
       /\ nodes[m].skip /\ isChinese(nodes[m].value)
       /\ InExcludedContext(nodes[m])
       /\ nodes[n].skip /\ isChinese(nodes[n].value)
       /\ ~InExcludedContext(nodes[n])
       /\ nodes[n].leadingComments = <<"note">>

----------------------------------------------------------------------------
(* C7 *)

\* C7: before the injection the statement list is the parsed one; after it
\* the list is the parsed one when no key was collected, and otherwise the
\* parsed one with three statements put in after its leading imports: the
\* import of the catalog builder, the default import of the runtime object
\* and the catalog declaration with an entry key: {id: key} for every key
\* of the registry, in registry order.
C7_InjectionAfterLeadingImports ==
  LET at == leadingImports(srcBody)
      key1 == [type |-> "ImportDeclaration", name |-> methodName1,
               tag |-> -1, importKind |-> "named", source |-> "react-intl",
               callee |-> "", entries |-> <<>>]
      key2 == [type |-> "ImportDeclaration", name |-> methodName2,
               tag |-> -2, importKind |-> "default", source |-> "@/locales",
               callee |-> "", entries |-> <<>>]
      decl == [type |-> "VariableDeclaration", name |-> "intlMessages",
               tag |-> -3, importKind |-> "", source |-> "",
               callee |-> methodName1,
               entries |-> [i \in 1..Len(fileMessagekeys) |->
                              [key |-> fileMessagekeys[i],
                               id |-> fileMessagekeys[i]]]]
  IN IF pc = "rewrite" /\ fileMessagekeys # <<>>
     THEN body = SubSeq(srcBody, 1, at) \o <<key1, key2, decl>>
                 \o SubSeq(srcBody, at + 1, Len(srcBody))
     ELSE body = srcBody

\* Two keys were collected in a file that starts with an import, and the
\* three statements are in.
C7_Witness ==
  /\ pc = "rewrite"
  /\ Len(fileMessagekeys) = 2
  /\ leadingImports(srcBody) = 1
  /\ Len(body) = Len(srcBody) + 3

----------------------------------------------------------------------------
(* C8 *)

\* C8: the accumulator is its initial content followed by the registries
\* of the files transformed so far, in the order of the transforms:
\* priorKeys until the Program visitor of the file pushes, priorKeys
\* followed by the registry of the file from then on; and the registry of
\* a file starts empty.
C8_AccumulatorIsConcatenation ==
  /\ pc \in {"idle", "Program", "collect", "fault"} => messageKeys = priorKeys
  /\ pc = "rewrite" => messageKeys = priorKeys \o fileMessagekeys
  /\ pc \in {"idle", "Program", "fault"} => fileMessagekeys = <<>>

\* Two files have each collected the key ni{placeholder1}: the initial
\* accumulator was empty, and the key is there twice.
C8_Witness ==
  /\ pc = "idle"
  /\ messageKeys = << <<"ni", "{placeholder1}">>, <<"ni", "{placeholder1}">> >>

----------------------------------------------------------------------------
(* C9 *)

\* C9: when the traversal of a file has ended, every fragment that gave
\* the registry its key is replaced by a call whose key is that key, and
\* the key of every generated call is in the registry.
C9_EveryCollectedFragmentIsRewritten ==
  Finished =>
     /\ \A n \in Collected :
          /\ Replaced(n)
          /\ nodes[n].out.key = trim(associatedText(nodes[n]))
     /\ \A n \in 1..Len(nodes) :
          Replaced(n) => includes(fileMessagekeys, nodes[n].out.key)

----------------------------------------------------------------------------
(* C10 *)

\* C10: the Program visitor throws exactly when the parsed statement list
\* is empty or holds import declarations only; then no key is registered,
\* no node is marked or replaced, the statement list and the accumulator
\* are as they were.  Otherwise index is the place of the first statement
\* that is no import declaration.
C10_ScanFaultsOnImportOnlyFiles ==
  /\ pc = "fault" =>
       /\ \A i \in 1..Len(srcBody) : srcBody[i].type = "ImportDeclaration"
       /\ fileMessagekeys = <<>>
       /\ body = srcBody
       /\ messageKeys = priorKeys
       /\ \A n \in 1..Len(nodes) :
            ~nodes[n].skip /\ ~Replaced(n) /\ nodes[n].stmt > 0
  /\ pc \in {"collect", "rewrite"} =>
       /\ index < Len(srcBody)
       /\ srcBody[index + 1].type # "ImportDeclaration"
       /\ \A i \in 1..index : srcBody[i].type = "ImportDeclaration"

\* The visitor has thrown on a file of two imports, one of them with a
\* Chinese source.
C10_Witness ==
  /\ pc = "fault"
  /\ Len(srcBody) = 2
  /\ \E n \in 1..Len(nodes) : isChinese(nodes[n].value)

====
